---- MODULE Spec2Model ----
(***************************************************************************)
(* A model of src/index.ts of pdf-to-md: the structured ("semantic")      *)
(* extraction buildSemanticFromXml, the browser-side block classifier     *)
(* semanticHtml, and the command-line script around them.                 *)
(*                                                                         *)
(* Text is a sequence of characters; a character is a one-character       *)
(* string.  The two non-ASCII characters the source names are written     *)
(* "u00A9" (the copyright sign) and "u2022" (the bullet).  Positions are  *)
(* integers; width / 2 is kept exact by comparing doubled values, and     *)
(* fontSize * 1.45 by comparing values scaled by 100.                     *)
(***************************************************************************)
EXTENDS Integers, Sequences, FiniteSets, TLC

VARIABLES
  \* buildSemanticFromXml, one page through its stages (SpecPage)
  ppc, page, items, sorted, lines, out, pageText,
  \* buildSemanticFromXml, the loop over a document's pages (Spec)
  dpc, doc, pages, totalLines, totalChars, stats, fontSizes,
  \* semanticHtml (SpecHtml)
  hpc, hText, hBlocks, hOut, hHtml,
  \* the main script (SpecCli)
  cpc, argv, steps, exitCode, stderr, stdout, written, tmpDir, payloads,
  semantic, semLog

pageVars == <<ppc, page, items, sorted, lines, out, pageText>>
docVars  == <<dpc, doc, pages, totalLines, totalChars, stats, fontSizes>>
htmlVars == <<hpc, hText, hBlocks, hOut, hHtml>>
cliVars  ==
  <<cpc, argv, steps, exitCode, stderr, stdout, written, tmpDir, payloads,
    semantic, semLog>>
vars     == <<pageVars, docVars, htmlVars, cliVars>>

----------------------------------------------------------------------------
(* Characters and strings                                                  *)

\* JavaScript's \s (and String.prototype.trim), on the characters modelled
WS == {" ", "\t", "\n", "\r", "\f"}

Digits == {"0", "1", "2", "3", "4", "5", "6", "7", "8", "9"}

IsSpace(c) == c \in WS

IsDigit(c) == c \in Digits

LowerToUpper ==
  [c \in {"a","b","c","d","e","f","g","h","i","j","k","l","m","n","o","p","q",
          "r","s","t","u","v","w","x","y","z"} |->
     CASE c = "a" -> "A" [] c = "b" -> "B" [] c = "c" -> "C" [] c = "d" -> "D"
       [] c = "e" -> "E" [] c = "f" -> "F" [] c = "g" -> "G" [] c = "h" -> "H"
       [] c = "i" -> "I" [] c = "j" -> "J" [] c = "k" -> "K" [] c = "l" -> "L"
       [] c = "m" -> "M" [] c = "n" -> "N" [] c = "o" -> "O" [] c = "p" -> "P"
       [] c = "q" -> "Q" [] c = "r" -> "R" [] c = "s" -> "S" [] c = "t" -> "T"
       [] c = "u" -> "U" [] c = "v" -> "V" [] c = "w" -> "W" [] c = "x" -> "X"
       [] c = "y" -> "Y" [] c = "z" -> "Z"]

UpperChar(c) == IF c \in DOMAIN LowerToUpper THEN LowerToUpper[c] ELSE c

LowerChar(c) ==
  IF \E l \in DOMAIN LowerToUpper : LowerToUpper[l] = c
    THEN CHOOSE l \in DOMAIN LowerToUpper : LowerToUpper[l] = c
    ELSE c

\* String.prototype.toUpperCase / toLowerCase
ToUpperCase(s) == [i \in 1..Len(s) |-> UpperChar(s[i])]

ToLowerCase(s) == [i \in 1..Len(s) |-> LowerChar(s[i])]

\* whether pat occurs in s at position i
MatchAt(s, i, pat) ==
  /\ i >= 1
  /\ i + Len(pat) - 1 <= Len(s)
  /\ \A k \in 1..Len(pat) : s[i + k - 1] = pat[k]

StartsWith(s, pat) == MatchAt(s, 1, pat)

\* String.prototype.endsWith
EndsWith(s, pat) == MatchAt(s, Len(s) - Len(pat) + 1, pat)

Contains(s, pat) == \E i \in 1..Len(s) : MatchAt(s, i, pat)

RECURSIVE ReplaceFrom(_, _, _, _)
\* s from position i on, every occurrence of pat replaced, left to right: the
\* text up to the next occurrence, rep, and the rest behind the occurrence
ReplaceFrom(s, i, pat, rep) ==
  LET found == {j \in i..Len(s) : MatchAt(s, j, pat)}
  IN  IF found = {} THEN SubSeq(s, i, Len(s))
      ELSE LET next == CHOOSE j \in found : \A k \in found : j <= k
           IN  SubSeq(s, i, next - 1) \o rep \o ReplaceFrom(s, next + Len(pat), pat, rep)

\* String.prototype.replaceAll(pat, rep), pat a non-empty string
ReplaceAll(s, pat, rep) == ReplaceFrom(s, 1, pat, rep)

\* s.replace(/\s+/g, " "): each maximal run of \s becomes one space
CollapseWs(s) ==
  LET kept == SelectSeq([i \in 1..Len(s) |-> i],
                        LAMBDA i : ~(IsSpace(s[i]) /\ i > 1 /\ IsSpace(s[i - 1])))
  IN  [k \in 1..Len(kept) |-> IF IsSpace(s[kept[k]]) THEN " " ELSE s[kept[k]]]

\* String.prototype.trim
Trim(s) ==
  LET keep == {i \in 1..Len(s) : ~IsSpace(s[i])}
  IN  IF keep = {} THEN <<>>
      ELSE LET lo == CHOOSE i \in keep : \A j \in keep : i <= j
               hi == CHOOSE i \in keep : \A j \in keep : j <= i
           IN  SubSeq(s, lo, hi)

\* the position after the longest run of \s+ that starts at i, 0 when none does
SkipSpaces1(s, i) ==
  IF i > Len(s) \/ ~IsSpace(s[i]) THEN 0
  ELSE LET stop == {j \in i..Len(s) + 1 : j > Len(s) \/ ~IsSpace(s[j])}
       IN  CHOOSE j \in stop : \A k \in stop : j <= k

\* the position after the longest run of \d+ that starts at i, 0 when none does
SkipDigits1(s, i) ==
  IF i > Len(s) \/ ~IsDigit(s[i]) THEN 0
  ELSE LET stop == {j \in i..Len(s) + 1 : j > Len(s) \/ ~IsDigit(s[j])}
       IN  CHOOSE j \in stop : \A k \in stop : j <= k

\* String.prototype.split(sep), sep one character: the pieces between the
\* separators, so "" splits to [""]
Split(s, sep) ==
  LET cuts == <<0>> \o SelectSeq([i \in 1..Len(s) |-> i], LAMBDA i : s[i] = sep)
              \o <<Len(s) + 1>>
  IN  [k \in 1..Len(cuts) - 1 |-> SubSeq(s, cuts[k] + 1, cuts[k + 1] - 1)]

RECURSIVE JoinRange(_, _, _, _)
\* parts[lo..hi] joined, lo <= hi; the range is halved to keep the evaluation
\* shallow
JoinRange(parts, sep, lo, hi) ==
  IF lo = hi THEN parts[lo]
  ELSE LET mid == (lo + hi) \div 2
       IN  JoinRange(parts, sep, lo, mid) \o sep \o JoinRange(parts, sep, mid + 1, hi)

\* Array.prototype.join(sep)
Join(parts, sep) ==
  IF Len(parts) = 0 THEN <<>> ELSE JoinRange(parts, sep, 1, Len(parts))

Max(a, b) == IF a >= b THEN a ELSE b

Abs(a) == IF a < 0 THEN -a ELSE a

----------------------------------------------------------------------------
(* Thresholds of buildSemanticFromXml and semanticHtml                     *)

MarginBand == 80

GutterGuard == 40

ColMinCount == 25

TopJitter == 3

LeftSpan == 500

MinGap == 14

\* 1.45, times 100
GapFactor100 == 145

DefaultFontSize == 12

HeadingMaxLen == 90

----------------------------------------------------------------------------
(* The run collector: buildSemanticFromXml, the loop over <text> elements  *)
(* A page is [height, width, fonts, runs]: fonts maps the ids of the       *)
(* page's <fontspec> elements to their sizes, runs are the <text>          *)
(* elements in document order, [top, left, font, raw], raw the element's   *)
(* inner markup.                                                           *)

RECURSIVE StripTagsFrom(_, _)
StripTagsFrom(s, i) ==
  IF i > Len(s) THEN <<>>
  ELSE LET close == {j \in i + 2..Len(s) : s[j] = ">"}
       IN  IF s[i] = "<" /\ i + 1 <= Len(s) /\ s[i + 1] # ">" /\ close # {}
             THEN StripTagsFrom(s, (CHOOSE j \in close : \A k \in close : j <= k) + 1)
             ELSE <<s[i]>> \o StripTagsFrom(s, i + 1)

\* raw.replace(/<[^>]+>/g, "")
StripTags(s) == StripTagsFrom(s, 1)

decodeXmlEntities(text) ==
  ReplaceAll(
    ReplaceAll(
      ReplaceAll(
        ReplaceAll(
          ReplaceAll(text, <<"&", "l", "t", ";">>, <<"<">>),
          <<"&", "g", "t", ";">>, <<">">>),
        <<"&", "a", "m", "p", ";">>, <<"&">>),
      <<"&", "q", "u", "o", "t", ";">>, <<"\"">>),
    <<"&", "#", "3", "9", ";">>, <<"'">>)

\* const text = decodeXmlEntities(raw.replace(/<[^>]+>/g, "")).replace(/\s+/g, " ").trim()
NormalizeText(raw) == Trim(CollapseWs(decodeXmlEntities(StripTags(raw))))

\* const bold = /<b>/.test(raw)
IsBold(raw) == Contains(raw, <<"<", "b", ">">>)

\* fontSizes.get(fontId) ?? 12
FontSizeOf(fonts, id) == IF id \in DOMAIN fonts THEN fonts[id] ELSE DefaultFontSize

\* InMargin without its test of the page height
InMarginAnyHeight(height, top) ==
  top < MarginBand \/ top > height - MarginBand

\* InMargin with the run at the edge of the band discarded too
InMarginInclusive(height, top) ==
  height > 0 /\ (top <= MarginBand \/ top >= height - MarginBand)

\* pageHeight > 0 && (top < 80 || top > pageHeight - 80)
InMargin(height, top) ==
  height > 0 /\ (top < MarginBand \/ top > height - MarginBand)

AllDigitsFrom(t, i) == i <= Len(t) /\ \A k \in i..Len(t) : IsDigit(t[k])

\* /^PDF\s+\d/
IsPdfHeader(t) ==
  /\ StartsWith(t, <<"P", "D", "F">>)
  /\ LET j == SkipSpaces1(t, 4) IN j # 0 /\ j <= Len(t) /\ IsDigit(t[j])

\* /^(c)\s+Adobe Systems/, (c) the copyright sign
IsCopyright(t) ==
  /\ StartsWith(t, <<"u00A9">>)
  /\ LET j == SkipSpaces1(t, 2) IN j # 0 /\ MatchAt(t, j, <<"A", "d", "o", "b", "e", " ", "S", "y", "s", "t", "e", "m", "s">>)

\* /^(Page\s+)?\d+$/
IsPageNumber(t) ==
  \/ AllDigitsFrom(t, 1)
  \/ /\ StartsWith(t, <<"P", "a", "g", "e">>)
     /\ LET j == SkipSpaces1(t, 5) IN j # 0 /\ AllDigitsFrom(t, j)

\* /^THIS PAGE BLANK$/i
IsBlankMarker(t) == ToUpperCase(t) = <<"T", "H", "I", "S", " ", "P", "A", "G", "E", " ", "B", "L", "A", "N", "K">>

IsNoise(t) == IsPdfHeader(t) \/ IsCopyright(t) \/ IsPageNumber(t) \/ IsBlankMarker(t)

MakeItem(p, r) ==
  [top      |-> r.top,
   left     |-> r.left,
   fontSize |-> FontSizeOf(p.fonts, r.font),
   bold     |-> IsBold(r.raw),
   text     |-> NormalizeText(r.raw)]

\* the three kinds of "continue" of the loop
Discarded(p, it) ==
  \/ it.text = <<>>
  \/ InMargin(p.height, it.top)
  \/ IsNoise(it.text)

\* items, after the loop over the page's <text> elements
CollectItems(p) ==
  SelectSeq([i \in 1..Len(p.runs) |-> MakeItem(p, p.runs[i])],
            LAMBDA it : ~Discarded(p, it))

----------------------------------------------------------------------------
(* The column classifier and the reading-order sorter                      *)

\* 2 * mid, mid = pageWidth > 0 ? pageWidth / 2 : 0
Mid2(p) == IF p.width > 0 THEN p.width ELSE 0

\* items.filter((i) => i.left < mid - 40).length
LeftCount(p, its) ==
  Cardinality({i \in 1..Len(its) : 2 * its[i].left < Mid2(p) - 2 * GutterGuard})

\* items.filter((i) => i.left > mid + 40).length
RightCount(p, its) ==
  Cardinality({i \in 1..Len(its) : 2 * its[i].left > Mid2(p) + 2 * GutterGuard})

\* pageWidth > 0 && leftCount > 25 && rightCount > 25
TwoCol(p, its) ==
  p.width > 0 /\ LeftCount(p, its) > ColMinCount /\ RightCount(p, its) > ColMinCount

\* sorted before the sort: each item with col: twoCol && i.left > mid ? 1 : 0
TagCols(p, its) ==
  LET two == TwoCol(p, its)
  IN  [i \in 1..Len(its) |->
         [col      |-> IF two /\ 2 * its[i].left > Mid2(p) THEN 1 ELSE 0,
          top      |-> its[i].top,
          left     |-> its[i].left,
          fontSize |-> its[i].fontSize,
          bold     |-> its[i].bold,
          text     |-> its[i].text]]

\* the comparator without its column key
AfterNoCol(a, b) ==
  \/ a.top > b.top
  \/ a.top = b.top /\ a.left > b.left

\* the comparator a.col - b.col || a.top - b.top || a.left - b.left, as "a after b"
After(a, b) ==
  \/ a.col > b.col
  \/ a.col = b.col /\ a.top > b.top
  \/ a.col = b.col /\ a.top = b.top /\ a.left > b.left

\* Array.prototype.sort with the comparator, a stable sort: an element goes
\* behind those it is after and those it ties with that came earlier
SortItems(s) ==
  LET n    == Len(s)
      rank == SubSeq([i \in 1..n |->
                        1 + Cardinality({j \in 1..n :
                                           \/ After(s[i], s[j])
                                           \/ ~After(s[j], s[i]) /\ j < i})],
                     1, n)
  IN  [k \in 1..n |-> s[CHOOSE i \in 1..n : rank[i] = k]]

\* sorted, of a page
SortedItems(p, its) == SortItems(TagCols(p, its))

----------------------------------------------------------------------------
(* The line merger                                                         *)

\* Mergeable with the jitter compared strictly
MergeableStrict(prev, item) ==
  /\ prev.col = item.col
  /\ Abs(prev.top - item.top) < TopJitter
  /\ Abs(prev.left - item.left) < LeftSpan

\* prev.col === item.col && |prev.top - item.top| <= 3 && |prev.left - item.left| < 500
Mergeable(prev, item) ==
  /\ prev.col = item.col
  /\ Abs(prev.top - item.top) <= TopJitter
  /\ Abs(prev.left - item.left) < LeftSpan

\* the round with a join that leaves the item's text out
MergeStepNoText(ls, item) ==
  IF Len(ls) > 0 /\ Mergeable(ls[Len(ls)], item)
    THEN [ls EXCEPT ![Len(ls)] =
            [@ EXCEPT !.fontSize = Max(@, item.fontSize),
                      !.bold     = @ \/ item.bold]]
    ELSE Append(ls, item)

\* one round of the loop: item joins the last line or opens a new one
MergeStep(ls, item) ==
  IF Len(ls) > 0 /\ Mergeable(ls[Len(ls)], item)
    THEN [ls EXCEPT ![Len(ls)] =
            [@ EXCEPT !.text     = @ \o <<" ">> \o item.text,
                      !.fontSize = Max(@, item.fontSize),
                      !.bold     = @ \/ item.bold]]
    ELSE Append(ls, item)

RECURSIVE MergeRange(_, _, _, _)
\* the loop over s[lo..hi], entered with lines = ls.  The range is halved and
\* the first half is evaluated before the second is entered, which keeps the
\* evaluation shallow.
MergeRange(s, lo, hi, ls) ==
  IF lo > hi THEN ls
  ELSE IF lo = hi THEN MergeStep(ls, s[lo])
  ELSE LET mid   == (lo + hi) \div 2
           first == MergeRange(s, lo, mid, ls)
       IN  IF Len(first) > 0 THEN MergeRange(s, mid + 1, hi, first) ELSE first

\* lines, after the loop has taken the first n items of sorted
MergeUpTo(s, n) == MergeRange(s, 1, n, <<>>)

\* lines, after the loop over sorted
MergeLines(s) == MergeUpTo(s, Len(s))

----------------------------------------------------------------------------
(* The block segmenter and the page's final text                           *)

\* GapBreak without the font size
GapBreakMinOnly(line, prevTop) ==
  100 * (line.top - prevTop) > 100 * MinGap

\* line.top - prevTop > Math.max(14, line.fontSize * 1.45)
GapBreak(line, prevTop) ==
  100 * (line.top - prevTop) > Max(100 * MinGap, GapFactor100 * line.fontSize)

\* the line with no separator for a change of column
EmittedNoColBreak(line, lineText, prevTop, prevCol) ==
  (IF prevTop # -1 /\ GapBreak(line, prevTop) THEN <<(<<>>)>> ELSE <<>>)
  \o <<lineText>>

\* what one line adds to out, given prevTop and prevCol
Emitted(line, lineText, prevTop, prevCol) ==
  (IF prevTop # -1 /\ line.col # prevCol THEN <<(<<>>)>> ELSE <<>>)
  \o (IF prevTop # -1 /\ GapBreak(line, prevTop) THEN <<(<<>>)>> ELSE <<>>)
  \o <<lineText>>

\* one round of the loop, on the loop's state [out, prevTop, prevCol]
SegmentStep(st, line) ==
  LET lineText == Trim(CollapseWs(line.text))
  IN  IF lineText = <<>> THEN st
      ELSE [out     |-> st.out \o Emitted(line, lineText, st.prevTop, st.prevCol),
            prevTop |-> line.top,
            prevCol |-> line.col]

RECURSIVE SegmentRange(_, _, _, _)
\* the loop over ls[lo..hi], entered in state st; halved like MergeRange
SegmentRange(ls, lo, hi, st) ==
  IF lo > hi THEN st
  ELSE IF lo = hi THEN SegmentStep(st, ls[lo])
  ELSE LET mid   == (lo + hi) \div 2
           first == SegmentRange(ls, lo, mid, st)
       IN  IF Len(first.out) >= 0 THEN SegmentRange(ls, mid + 1, hi, first) ELSE first

\* the loop's state after the first n lines
SegmentUpTo(ls, n) ==
  SegmentRange(ls, 1, n, [out |-> <<>>, prevTop |-> -1, prevCol |-> -1])

\* out, after the loop over lines
SegmentLines(ls) == SegmentUpTo(ls, Len(ls)).out

\* CollapseNewlines left out
NoCollapse(s) == s

\* s.replace(/\n{3,}/g, "\n\n"): of a run of three or more newlines the first
\* two stay
CollapseNewlines(s) ==
  LET kept == SelectSeq([i \in 1..Len(s) |-> i],
                        LAMBDA i : ~(s[i] = "\n" /\ i > 2
                                     /\ s[i - 1] = "\n" /\ s[i - 2] = "\n"))
  IN  [k \in 1..Len(kept) |-> s[kept[k]]]

\* out.join("\n").replace(/\n{3,}/g, "\n\n").trim()
AssembleText(o) == Trim(CollapseNewlines(Join(o, <<"\n">>)))

\* the page's final text
BuildPageText(p) ==
  AssembleText(SegmentLines(MergeLines(SortedItems(p, CollectItems(p)))))

\* LineCount without its test for the empty text
LineCountUnguarded(t) == Len(Split(t, "\n"))

\* pageText ? pageText.split("\n").length : 0
LineCount(t) == IF t # <<>> THEN Len(Split(t, "\n")) ELSE 0

----------------------------------------------------------------------------
(* Pages the model runs on                                                 *)

\* bounds of the model
MaxRuns == 3

MaxExtra == 2

MaxPages == 3

\* the font table of the README's mock document: <fontspec id="0" size="18"/>, id 1 size 12
MockFonts == ("0" :> 18) @@ ("1" :> 12)

Run(top, left, font, raw) == [top |-> top, left |-> left, font |-> font, raw |-> raw]

\* runs for the small pages: rows a few units apart, the two margins of a
\* page 400 high, a far-right run, an unresolved font, markup, entities,
\* an empty run, a page number, and two runs at one position
RunPool ==
  << Run(97, 80, "1", <<"a">>),
     Run(100, 80, "0", <<"<", "b", ">", "B", "<", "/", "b", ">">>),
     Run(101, 580, "9", <<"c">>),
     Run(102, 579, "1", <<"d">>),
     Run(103, 80, "1", <<"e", ".">>),
     Run(117, 80, "1", <<"f">>),
     Run(79, 80, "1", <<"m">>),
     Run(80, 80, "0", <<"g", " ", "&", "a", "m", "p", ";", " ", "h">>),
     Run(320, 80, "1", <<"i">>),
     Run(321, 80, "1", <<"n">>),
     Run(200, 80, "1", <<" ", "<", "i", ">", " ", "<", "/", "i", ">", "\n">>),
     Run(210, 80, "1", <<"P", "a", "g", "e", " ", " ", "7">>),
     Run(100, 80, "1", <<"<", "i", ">", "t", "<", "/", "i", ">">>) >>

Reverse(s) == [i \in 1..Len(s) |-> s[Len(s) + 1 - i]]

\* the elements of pool whose index is in idx, in pool order
Pick(pool, idx) ==
  LET chosen == SelectSeq([i \in 1..Len(pool) |-> i], LAMBDA i : i \in idx)
  IN  [k \in 1..Len(chosen) |-> pool[chosen[k]]]

SmallPages ==
  { [height |-> h, width |-> w, fonts |-> MockFonts,
     runs |-> IF rev THEN Reverse(Pick(RunPool, idx)) ELSE Pick(RunPool, idx)] :
      h \in {0, 400}, w \in {0, 1200}, rev \in BOOLEAN,
      idx \in {s \in SUBSET (1..Len(RunPool)) : Cardinality(s) <= MaxRuns} }

\* a run of a column page says in its text which half of the page it is in
Tagged(width, top, left) ==
  Run(top, left, "1", IF 2 * left > width THEN <<"R">> ELSE <<"L">>)

\* runs beside the columns: in the top margin, on the centre line, just
\* right of it, and at the edge of the left guard band
ExtraPool(width) ==
  << Tagged(width, 50, 120),
     Tagged(width, 132, 600),
     Tagged(width, 148, 601),
     Tagged(width, 164, 560) >>

\* nL runs down the left of the page and nR down the right, one row every
\* 16 units, the right column starting at rightTop
ColumnPage(h, w, nL, nR, rightTop, idx) ==
  [height |-> h, width |-> w, fonts |-> MockFonts,
   runs |-> [i \in 1..nL |-> Tagged(w, 100 + 16 * i, 120)]
            \o Pick(ExtraPool(w), idx)
            \o [i \in 1..nR |-> Tagged(w, rightTop + 16 * i, 700)]]

ColumnPages ==
  { ColumnPage(h, w, nL, nR, rightTop, idx) :
      h \in {0, 3000}, w \in {0, 1200, 1201},
      nL \in ColMinCount..ColMinCount + 1, nR \in ColMinCount..ColMinCount + 1,
      rightTop \in {100, 700},
      idx \in {s \in SUBSET (1..4) : Cardinality(s) <= MaxExtra} }

\* the page of the spec's end-to-end scenario: the first page of the README's
\* mock document, with the scenario's texts
ScenarioPage ==
  [height |-> 1000, width |-> 800, fonts |-> MockFonts,
   runs |-> << Run(120, 80, "0", <<"<", "b", ">", "I", "N", "T", "R", "O", "D", "U", "C", "T", "I", "O", "N", "<", "/", "b", ">">>),
               Run(160, 80, "1", <<"P", "a", "r", "a", "g", "r", "a", "p", "h", " ", "l", "i", "n", "e", " ", "o", "n", "e", ".">>),
               Run(176, 80, "1", <<"P", "a", "r", "a", "g", "r", "a", "p", "h", " ", "l", "i", "n", "e", " ", "t", "w", "o", ".">>) >>]

\* the second page of the README's mock document: it declares font 1 only
MockPage2 ==
  [height |-> 1000, width |-> 800, fonts |-> ("1" :> 12),
   runs |-> << Run(140, 80, "1", <<"S", "e", "c", "o", "n", "d", " ", "p", "a", "g", "e", " ", "s", "e", "m", "a", "n", "t", "i", "c", " ", "c", "o", "n", "t", "e", "n", "t", ".">>) >>]

\* a page with no <text> element, and one whose runs are all discarded
EmptyPage == [height |-> 1000, width |-> 800, fonts |-> MockFonts, runs |-> <<>>]

ClutterPage ==
  [height |-> 1000, width |-> 800, fonts |-> MockFonts,
   runs |-> << Run(40, 80, "1", <<"R", "u", "n", "n", "i", "n", "g", " ", "h", "e", "a", "d", "e", "r">>),
               Run(500, 80, "1", <<"1", "2">>),
               Run(520, 80, "1", <<"t", "h", "i", "s", " ", "p", "a", "g", "e", " ", "b", "l", "a", "n", "k">>) >>]

\* a page that uses font 0 and declares no font
BarePage ==
  [height |-> 0, width |-> 0, fonts |-> <<>>,
   runs |-> << Run(10, 80, "0", <<"A">>),
               Run(30, 80, "0", <<"b">>),
               Run(30, 700, "0", <<"c">>) >>]

\* a page of unknown height with a run at top -1, the value prevTop starts with
SentinelPage ==
  [height |-> 0, width |-> 0, fonts |-> MockFonts,
   runs |-> << Run(-1, 80, "1", <<"s">>),
               Run(0, 80, "1", <<"t">>),
               Run(40, 80, "1", <<"v">>) >>]

EdgePages == {SentinelPage}

DocPages == {ScenarioPage, MockPage2, EmptyPage, ClutterPage, BarePage}

RECURSIVE SeqsUpTo(_, _)
\* the sequences over S of length at most n
SeqsUpTo(S, n) ==
  IF n = 0 THEN {<<>>}
  ELSE LET shorter == SeqsUpTo(S, n - 1)
       IN  shorter \cup {Append(s, x) : s \in shorter, x \in S}

Docs == SeqsUpTo(DocPages, MaxPages)

----------------------------------------------------------------------------
(* Idle values: each specification runs one part of the program and        *)
(* leaves the variables of the other parts alone.                          *)

NoPage == [height |-> 0, width |-> 0, fonts |-> <<>>, runs |-> <<>>]

NoStats == [pages |-> 0, lines |-> 0, chars |-> 0]

IdlePage ==
  /\ ppc = "idle" /\ page = NoPage /\ items = <<>> /\ sorted = <<>>
  /\ lines = <<>> /\ out = <<>> /\ pageText = <<>>

IdleDoc ==
  /\ dpc = "idle" /\ doc = <<>> /\ pages = <<>>
  /\ totalLines = 0 /\ totalChars = 0 /\ stats = NoStats /\ fontSizes = <<>>

IdleHtml ==
  hpc = "idle" /\ hText = <<>> /\ hBlocks = <<>> /\ hOut = <<>> /\ hHtml = <<>>

IdleCli ==
  /\ cpc = "idle" /\ argv = <<>> /\ steps = <<>> /\ exitCode = -1
  /\ stderr = <<>> /\ stdout = <<>> /\ written = FALSE /\ tmpDir = "none"
  /\ payloads = <<>> /\ semantic = "none" /\ semLog = <<>>

----------------------------------------------------------------------------
(* SpecPage: buildSemanticFromXml on one page, stage by stage              *)

InitPage ==
  /\ page \in SmallPages \cup ColumnPages \cup DocPages \cup EdgePages
  /\ ppc = "start"
  /\ items = <<>> /\ sorted = <<>> /\ lines = <<>> /\ out = <<>> /\ pageText = <<>>
  /\ IdleDoc /\ IdleHtml /\ IdleCli

Collect ==
  /\ ppc = "start"
  /\ items' = CollectItems(page)
  /\ ppc' = "collected"
  /\ UNCHANGED <<page, sorted, lines, out, pageText, docVars, htmlVars, cliVars>>

SortRuns ==
  /\ ppc = "collected"
  /\ sorted' = SortedItems(page, items)
  /\ ppc' = "sorted"
  /\ UNCHANGED <<page, items, lines, out, pageText, docVars, htmlVars, cliVars>>

Merge ==
  /\ ppc = "sorted"
  /\ lines' = MergeLines(sorted)
  /\ ppc' = "merged"
  /\ UNCHANGED <<page, items, sorted, out, pageText, docVars, htmlVars, cliVars>>

Segment ==
  /\ ppc = "merged"
  /\ out' = SegmentLines(lines)
  /\ ppc' = "segmented"
  /\ UNCHANGED <<page, items, sorted, lines, pageText, docVars, htmlVars, cliVars>>

Assemble ==
  /\ ppc = "segmented"
  /\ pageText' = AssembleText(out)
  /\ ppc' = "done"
  /\ UNCHANGED <<page, items, sorted, lines, out, docVars, htmlVars, cliVars>>

NextPage == Collect \/ SortRuns \/ Merge \/ Segment \/ Assemble

SpecPage == InitPage /\ [][NextPage]_vars

----------------------------------------------------------------------------
(* Spec: buildSemanticFromXml on a document, page by page                  *)

Init ==
  /\ doc \in Docs
  /\ dpc = "loop"
  /\ pages = <<>> /\ totalLines = 0 /\ totalChars = 0 /\ stats = NoStats
  /\ fontSizes = <<>>
  /\ IdlePage /\ IdleHtml /\ IdleCli

\* a font table that keeps the entries of the pages before
PageFontsCarried(before, p) == p.fonts @@ before

\* const fontSizes = new Map() and the loop over the page's <fontspec>
\* elements: the table of a page, given the table the page before had
PageFonts(before, p) == p.fonts

\* one round of the while loop over <page> elements
ProcessPage ==
  /\ dpc = "loop"
  /\ Len(pages) < Len(doc)
  /\ LET p     == doc[Len(pages) + 1]
         fonts == PageFonts(fontSizes, p)
         text  == BuildPageText([p EXCEPT !.fonts = fonts])
     IN  /\ fontSizes' = fonts
         /\ pages' = Append(pages, text)
         /\ totalLines' = totalLines + LineCount(text)
         /\ totalChars' = totalChars + Len(text)
  /\ UNCHANGED <<dpc, doc, stats, pageVars, htmlVars, cliVars>>

\* return { pages, stats: { pages: pages.length, lines: totalLines, chars: totalChars } }
Return ==
  /\ dpc = "loop"
  /\ Len(pages) = Len(doc)
  /\ stats' = [pages |-> Len(pages), lines |-> totalLines, chars |-> totalChars]
  /\ dpc' = "returned"
  /\ UNCHANGED <<doc, pages, totalLines, totalChars, fontSizes,
                 pageVars, htmlVars, cliVars>>

Next == ProcessPage \/ Return

Spec == Init /\ [][Next]_vars

----------------------------------------------------------------------------
(* Properties of buildSemanticFromXml on one page (SpecPage)               *)

Collected == ppc # "start"

Sorted == ppc \in {"sorted", "merged", "segmented", "done"}

Merged == ppc \in {"merged", "segmented", "done"}

\* the surviving runs left of the left guard band, and right of the right one
LeftOfBand == {i \in 1..Len(items) : 2 * items[i].left < page.width - 80}

RightOfBand == {i \in 1..Len(items) : 2 * items[i].left > page.width + 80}

\* every surviving run says in its text which half of the page it is in
ItemsTagged ==
  \A i \in 1..Len(items) :
    items[i].text = (IF 2 * items[i].left > page.width THEN <<"R">> ELSE <<"L">>)

TwoColumnCase ==
  /\ ppc = "done"
  /\ page.width > 0
  /\ Cardinality(LeftOfBand) >= 26
  /\ Cardinality(RightOfBand) >= 26
  /\ ItemsTagged

\* C1: on a page with width > 0 that has at least 26 surviving runs left of
\* width/2 - 40 and at least 26 right of width/2 + 40, every line of the final
\* text that comes from runs with left <= width/2 is before every line that
\* comes from runs with left > width/2.  The runs carry their half in their
\* text, so: no "L" of the final text is behind an "R".
C1_ColumnOrder ==
  TwoColumnCase =>
    \A i \in 1..Len(pageText) : \A j \in 1..Len(pageText) :
      (pageText[i] = "R" /\ pageText[j] = "L") => j < i

\* a two-column page whose right column starts level with the left one and
\* which has a run between the centre line and the right guard band
C1_Witness ==
  /\ TwoColumnCase
  /\ \E i \in 1..Len(items) : \E j \in 1..Len(items) :
       /\ 2 * items[i].left > page.width /\ 2 * items[j].left <= page.width
       /\ items[i].top < items[j].top
  /\ \E i \in 1..Len(items) :
       2 * items[i].left > page.width /\ i \notin RightOfBand
  /\ \E i \in 1..Len(pageText) : pageText[i] = "L"
  /\ \E i \in 1..Len(pageText) : pageText[i] = "R"

\* the number of the Line that the k-th run of sorted went into
LineOf(k) == Len(MergeUpTo(sorted, k))

\* the k-th run of sorted opened its Line
Opens(k) == k = 1 \/ LineOf(k) # LineOf(k - 1)

\* the i-th and the j-th run of sorted meet the merge conditions
Close(i, j) ==
  /\ sorted[i].col = sorted[j].col
  /\ Abs(sorted[i].top - sorted[j].top) <= 3
  /\ Abs(sorted[i].left - sorted[j].left) < 500

\* runs i and j are in one Line, whose fontSize and bold cover theirs
MergedInto(i, j) ==
  /\ LineOf(i) = LineOf(j)
  /\ LET line == lines[LineOf(i)]
         f    == Max(sorted[i].fontSize, sorted[j].fontSize)
     IN  /\ line.fontSize >= f
         /\ (sorted[i].bold \/ sorted[j].bold) => line.bold
         /\ {k \in 1..Len(sorted) : LineOf(k) = LineOf(i)} = {i, j} => line.fontSize = f

\* C2 as stated: any two surviving runs of a page with the same col, tops at
\* most 3 apart and lefts less than 500 apart are in one Line, whatever other
\* runs the page has.
C2_AnyTwoCloseRunsMerge ==
  Merged =>
    \A i \in 1..Len(sorted) : \A j \in 1..Len(sorted) :
      (i < j /\ Close(i, j)) => MergedInto(i, j)

\* C2, amended: two such runs are in one Line when the one sorted first opens
\* its Line and every run sorted between them is less than 500 from it on the
\* left; that Line has fontSize >= max(f1, f2), exactly the max when they are
\* its only runs, and is bold when either run is.
C2_CloseRunsMergeWithOpener ==
  Merged =>
    \A i \in 1..Len(sorted) : \A j \in 1..Len(sorted) :
      ( /\ i < j /\ Close(i, j)
        /\ Opens(i)
        /\ \A k \in i + 1..j - 1 : Abs(sorted[k].left - sorted[i].left) < 500 )
      => MergedInto(i, j)

\* two close runs of different font size, one bold, in a Line of their own
\* beside another Line
C2_Witness ==
  /\ Merged
  /\ Len(lines) > 1
  /\ \E i \in 1..Len(sorted) : \E j \in 1..Len(sorted) :
       /\ i < j /\ Close(i, j) /\ Opens(i)
       /\ sorted[i].top # sorted[j].top
       /\ sorted[i].fontSize # sorted[j].fontSize
       /\ sorted[i].bold # sorted[j].bold
       /\ {k \in 1..Len(sorted) : LineOf(k) = LineOf(i)} = {i, j}

\* the page without the runs in its margins
WithoutMarginRuns(p) ==
  [p EXCEPT !.runs = SelectSeq(@, LAMBDA r : ~(r.top < 80 \/ r.top > p.height - 80))]

\* C3: on a page with height > 0 a run with top < 80 or top > height - 80
\* adds nothing to the final text: the surviving runs and the final text are
\* those of the page without such runs; and the margin rule discards no run
\* with 80 <= top <= height - 80: the surviving runs are those that survive
\* with the height unknown and lie in that band.
C3_MarginSuppression ==
  (Collected /\ page.height > 0) =>
    /\ items = CollectItems(WithoutMarginRuns(page))
    /\ items = SelectSeq(CollectItems([page EXCEPT !.height = 0]),
                         LAMBDA it : 80 <= it.top /\ it.top <= page.height - 80)
    /\ ppc = "done" => pageText = BuildPageText(WithoutMarginRuns(page))

\* a page with a run in each margin and one on the edge of the top band
C3_Witness ==
  /\ ppc = "done" /\ page.height > 0
  /\ \E i \in 1..Len(page.runs) : page.runs[i].top = 79
  /\ \E i \in 1..Len(page.runs) : page.runs[i].top = page.height - 79
  /\ \E i \in 1..Len(items) : items[i].top = 80
  /\ Len(items) = 1

ScenarioLines ==
  << <<"I", "N", "T", "R", "O", "D", "U", "C", "T", "I", "O", "N">>,
     <<"P", "a", "r", "a", "g", "r", "a", "p", "h", " ", "l", "i", "n", "e", " ", "o", "n", "e", ".">>,
     <<"P", "a", "r", "a", "g", "r", "a", "p", "h", " ", "l", "i", "n", "e", " ", "t", "w", "o", ".">> >>

ScenarioDone == ppc = "done" /\ page = ScenarioPage

\* C4 as stated: the scenario's final text is "INTRODUCTION", a blank line,
\* and the one line "Paragraph line one. Paragraph line two.".
C4_ScenarioOneParagraphLine ==
  ScenarioDone =>
    pageText = ScenarioLines[1] \o <<"\n", "\n">>
               \o ScenarioLines[2] \o <<" ">> \o ScenarioLines[3]

\* C4, amended: the scenario's final text is "INTRODUCTION", a blank line,
\* then the two lines "Paragraph line one." and "Paragraph line two.".
C4_ScenarioTwoParagraphLines ==
  ScenarioDone =>
    pageText = ScenarioLines[1] \o <<"\n", "\n">>
               \o ScenarioLines[2] \o <<"\n">> \o ScenarioLines[3]

C4_Witness ==
  /\ ScenarioDone
  /\ Len(lines) = 3
  /\ lines[1].bold /\ lines[1].fontSize = 18
  /\ out = <<ScenarioLines[1], <<>>, ScenarioLines[2], ScenarioLines[3]>>

\* C6: the final text of a page never has three newlines in a row, and
\* neither starts nor ends with whitespace.
C6_BlankLineCap ==
  ppc = "done" =>
    /\ \A i \in 1..Len(pageText) - 2 :
         ~(pageText[i] = "\n" /\ pageText[i + 1] = "\n" /\ pageText[i + 2] = "\n")
    /\ pageText # <<>> =>
         ~IsSpace(pageText[1]) /\ ~IsSpace(pageText[Len(pageText)])

\* a line that both changes column and lies far below the line before it
C6_Witness ==
  /\ ppc = "done"
  /\ \E k \in 2..Len(lines) :
       /\ lines[k].col # lines[k - 1].col
       /\ lines[k].top - lines[k - 1].top > 100
  /\ \E k \in 1..Len(out) - 1 : out[k] = <<>> /\ out[k + 1] = <<>>
  /\ \E i \in 1..Len(pageText) - 1 : pageText[i] = "\n" /\ pageText[i + 1] = "\n"

\* the runs whose text the collector keeps
CleanRuns(p) ==
  {i \in 1..Len(p.runs) :
     LET t == NormalizeText(p.runs[i].raw) IN t # <<>> /\ ~IsNoise(t)}

NoMarginFilter == Len(items) = Cardinality(CleanRuns(page))

NoColumns == \A i \in 1..Len(sorted) : sorted[i].col = 0

\* C9 as stated: a page whose width or height is 0 has neither margin
\* filtering nor column detection.
C9_EitherUnknownDisablesBoth ==
  (page.width = 0 \/ page.height = 0) =>
    /\ Collected => NoMarginFilter
    /\ Sorted => NoColumns

\* C9, amended: a page whose height is 0 has no margin filtering (no run is
\* discarded for its top) and a page whose width is 0 has no column detection
\* (every run gets col 0); each follows its own dimension.
C9_UnknownDimensions ==
  /\ (Collected /\ page.height = 0) => NoMarginFilter
  /\ (Sorted /\ page.width = 0) => NoColumns

\* a page of unknown height that keeps runs a known height would discard,
\* and a page of unknown width with runs enough for two columns
C9_Witness ==
  /\ ppc = "done"
  /\ \/ /\ page.height = 0
        /\ \E i \in 1..Len(items) : items[i].top < 80
        /\ pageText # <<>>
     \/ /\ page.width = 0
        /\ Len(sorted) > 2 * ColMinCount + 1
        /\ pageText # <<>>

----------------------------------------------------------------------------
(* Properties of buildSemanticFromXml on a document (Spec)                 *)

RECURSIVE SumOver(_, _)
\* f[1] + ... + f[n]
SumOver(f, n) == IF n = 0 THEN 0 ELSE f[n] + SumOver(f, n - 1)

\* the '\n'-delimited segments of a text, none for the empty text
Segments(t) ==
  IF t = <<>> THEN 0 ELSE 1 + Cardinality({i \in 1..Len(t) : t[i] = "\n"})

\* C5: when buildSemanticFromXml returns, stats.pages is the number of pages
\* of the document and the length of pages, stats.chars the sum of the lengths
\* of the pages' texts, and stats.lines the sum of their numbers of segments;
\* a page without surviving runs has the empty text, with no line and no
\* character.
C5_StatsConsistency ==
  dpc = "returned" =>
    /\ stats.pages = Len(doc)
    /\ stats.pages = Len(pages)
    /\ stats.chars = SumOver([i \in 1..Len(pages) |-> Len(pages[i])], Len(pages))
    /\ stats.lines = SumOver([i \in 1..Len(pages) |-> Segments(pages[i])], Len(pages))
    /\ \A i \in 1..Len(doc) : CollectItems(doc[i]) = <<>> => pages[i] = <<>>

\* a document with a page that has several lines and a page without
\* surviving runs
C5_Witness ==
  /\ dpc = "returned"
  /\ Len(doc) >= 2
  /\ \E i \in 1..Len(doc) : doc[i].runs # <<>> /\ pages[i] = <<>>
  /\ \E i \in 1..Len(doc) : Segments(pages[i]) > 2
  /\ stats.lines > 2

----------------------------------------------------------------------------
(* semanticHtml: the block classifier of the generated page's script       *)

\* (pageText || "").split("\n").map((s) => s.trim()).filter(Boolean)
HtmlLines(text) ==
  LET parts == Split(text, "\n")
  IN  SelectSeq([i \in 1..Len(parts) |-> Trim(parts[i])], LAMBDA l : l # <<>>)

\* /[.!?;:]$/
EndsSentence(line) ==
  Len(line) > 0 /\ line[Len(line)] \in {".", "!", "?", ";", ":"}

\* one round of the loop over lines, on the loop's state [blocks, cur]
BlockStep(st, line) ==
  IF line = <<>> THEN st
  ELSE IF Len(st.cur) > 0 /\ EndsSentence(st.cur[Len(st.cur)])
    THEN [blocks |-> Append(st.blocks, st.cur), cur |-> <<line>>]
    ELSE [blocks |-> st.blocks, cur |-> Append(st.cur, line)]

RECURSIVE BlocksUpTo(_, _)
\* the loop's state after the first n lines
BlocksUpTo(ls, n) ==
  IF n = 0 THEN [blocks |-> <<>>, cur |-> <<>>]
  ELSE BlockStep(BlocksUpTo(ls, n - 1), ls[n])

\* blocks, after the loop and the push of the last block
SplitBlocks(text) ==
  LET ls == HtmlLines(text)
      st == BlocksUpTo(ls, Len(ls))
  IN  IF Len(st.cur) > 0 THEN Append(st.blocks, st.cur) ELSE st.blocks

\* b.join(" ").replace(/\s+/g, " ").trim()
BlockText(b) == Trim(CollapseWs(Join(b, <<" ">>)))

RECURSIVE OutlineFrom(_, _)
\* the position after the longest (\.\d+)* that starts at j
OutlineFrom(t, j) ==
  IF j <= Len(t) /\ t[j] = "." /\ SkipDigits1(t, j + 1) # 0
    THEN OutlineFrom(t, SkipDigits1(t, j + 1))
    ELSE j

\* /^\d+(\.\d+)*\s+/
HasOutline(t) ==
  /\ SkipDigits1(t, 1) # 0
  /\ SkipSpaces1(t, OutlineFrom(t, SkipDigits1(t, 1))) # 0

\* the position after a match of /^([\-*u2022]|\d+[.)]|\[[0-9]+\])\s+/, 0 when
\* there is none
MarkerEnd(t) ==
  IF Len(t) = 0 THEN 0
  ELSE IF t[1] \in {"-", "*", "u2022"} THEN SkipSpaces1(t, 2)
  ELSE IF IsDigit(t[1])
    THEN LET j == SkipDigits1(t, 1)
         IN  IF j <= Len(t) /\ t[j] \in {".", ")"} THEN SkipSpaces1(t, j + 1) ELSE 0
  ELSE IF t[1] = "["
    THEN LET j == SkipDigits1(t, 2)
         IN  IF j # 0 /\ j <= Len(t) /\ t[j] = "]" THEN SkipSpaces1(t, j + 1) ELSE 0
  ELSE 0

\* .replaceAll("&", "&amp;").replaceAll("<", "&lt;").replaceAll(">", "&gt;")
EscapeMarkup(t) ==
  ReplaceAll(ReplaceAll(ReplaceAll(t, <<"&">>, <<"&", "a", "m", "p", ";">>), <<"<">>, <<"&", "l", "t", ";">>),
             <<">">>, <<"&", "g", "t", ";">>)

\* the block with the list test before the heading test
ClassifyListFirst(text) ==
  IF MarkerEnd(text) # 0
    THEN [kind |-> "list",
          text |-> EscapeMarkup(SubSeq(text, MarkerEnd(text), Len(text)))]
  ELSE IF HasOutline(text) \/ (Len(text) < HeadingMaxLen /\ text = ToUpperCase(text))
    THEN [kind |-> "heading", text |-> EscapeMarkup(text)]
  ELSE [kind |-> "paragraph", text |-> EscapeMarkup(text)]

\* the if / else if / else of the loop over blocks
ClassifyBlock(text) ==
  IF HasOutline(text) \/ (Len(text) < HeadingMaxLen /\ text = ToUpperCase(text))
    THEN [kind |-> "heading", text |-> EscapeMarkup(text)]
  ELSE IF MarkerEnd(text) # 0
    THEN [kind |-> "list",
          text |-> EscapeMarkup(SubSeq(text, MarkerEnd(text), Len(text)))]
  ELSE [kind |-> "paragraph", text |-> EscapeMarkup(text)]

\* what out.push(...) pushes for a classified block
Markup(c) ==
  CASE c.kind = "heading" -> <<"<", "h", "4", ">">> \o c.text \o <<"<", "/", "h", "4", ">">>
    [] c.kind = "list"    -> <<"<", "u", "l", ">", "<", "l", "i", ">">> \o c.text \o <<"<", "/", "l", "i", ">", "<", "/", "u", "l", ">">>
    [] OTHER              -> <<"<", "p", ">">> \o c.text \o <<"<", "/", "p", ">">>

\* the blocks that are not skipped for an empty text, classified
ClassifyBlocks(blocks) ==
  LET texts == SelectSeq([k \in 1..Len(blocks) |-> BlockText(blocks[k])],
                         LAMBDA t : t # <<>>)
  IN  [k \in 1..Len(texts) |-> ClassifyBlock(texts[k])]

\* out.join("")
RenderHtml(cs) == Join([k \in 1..Len(cs) |-> Markup(cs[k])], <<>>)

----------------------------------------------------------------------------
(* SpecHtml: semanticHtml on the final text of a page                      *)

\* bounds of the model
MaxHtmlLines == 2

MaxLineLen == 3

Repeat(c, n) == [i \in 1..n |-> c]

\* lines a page's final text can have: headings, sentences, list items
LinePool ==
  { <<"I", "N", "T", "R", "O", "D", "U", "C", "T", "I", "O", "N">>,
    <<"1", ".", "2", " ", "O", "V", "E", "R", "V", "I", "E", "W">>,
    <<"T", "h", "i", "s", " ", "i", "s", " ", "a", " ", "n", "o", "r", "m", "a", "l", " ", "s", "e", "n", "t", "e", "n", "c", "e", ".">>,
    <<"-", " ", "f", "i", "r", "s", "t", " ", "i", "t", "e", "m">>,
    <<"1", ".", " ", "o", "n", "e">>,
    <<"2", ")", " ", "t", "w", "o", ";">>,
    <<"[", "3", "]", " ", "t", "h", "r", "e", "e">>,
    <<"*", " ", "s", "t", "a", "r">>,
    <<"u2022", " ", "D", "o", "t">>,
    <<"-", " ", "A", ":">>,
    <<"a", " ", "<", " ", "b", " ", "&", " ", "c", " ", ">", " ", "d", ";">>,
    <<"P", "a", "r", "a", "g", "r", "a", "p", "h", " ", "l", "i", "n", "e", " ", "o", "n", "e", ".">> }

\* upper-case lines around the length that ends a heading
LongLines ==
  { Repeat("A", n) : n \in HeadingMaxLen - 1..HeadingMaxLen + 1 }
  \cup { <<"-", " ">> \o Repeat("A", HeadingMaxLen - 2) }

\* a line of a final text is not empty, has no outer whitespace, and no
\* whitespace but single spaces
IsFinalLine(l) == l # <<>> /\ l = Trim(CollapseWs(l)) /\ \A i \in 1..Len(l) : l[i] \notin WS \ {" "}

ShortLines ==
  { l \in SeqsUpTo({"1", "2", ".", " ", "-", ")", "[", "]", "a", "A"}, MaxLineLen) :
      IsFinalLine(l) }

RECURSIVE TextsOf(_, _)
\* the final texts of at most n lines from pool: lines with a newline or a
\* blank line between them
TextsOf(pool, n) ==
  IF n = 1 THEN pool
  ELSE LET shorter == TextsOf(pool, n - 1)
       IN  shorter \cup { t \o sep \o l :
                            t \in shorter, sep \in {<<"\n">>, <<"\n", "\n">>}, l \in pool }

HtmlTexts ==
  {<<>>} \cup TextsOf(LinePool, MaxHtmlLines) \cup LongLines \cup ShortLines
  \cup { BuildPageText(p) : p \in DocPages }

InitHtml ==
  /\ hText \in HtmlTexts
  /\ hpc = "start"
  /\ hBlocks = <<>> /\ hOut = <<>> /\ hHtml = <<>>
  /\ IdlePage /\ IdleDoc /\ IdleCli

\* the first half of semanticHtml: lines, then blocks
GroupBlocks ==
  /\ hpc = "start"
  /\ hBlocks' = SplitBlocks(hText)
  /\ hpc' = "blocks"
  /\ UNCHANGED <<hText, hOut, hHtml, pageVars, docVars, cliVars>>

\* the second half: each block classified and rendered, the results joined
Render ==
  /\ hpc = "blocks"
  /\ hOut' = ClassifyBlocks(hBlocks)
  /\ hHtml' = RenderHtml(ClassifyBlocks(hBlocks))
  /\ hpc' = "done"
  /\ UNCHANGED <<hText, hBlocks, pageVars, docVars, cliVars>>

NextHtml == GroupBlocks \/ Render

SpecHtml == InitHtml /\ [][NextHtml]_vars

----------------------------------------------------------------------------
(* Properties of semanticHtml (SpecHtml)                                   *)

\* the lines of a final text, blank ones included
RawLines(text) == Split(text, "\n")

\* n is in ParagraphBreaks when a blank line lies between the n-th and the
\* (n+1)-th non-blank line of the text
ParagraphBreaks(text) ==
  LET raw == RawLines(text)
      blank == {k \in 1..Len(raw) : raw[k] = <<>>}
      inner == {k \in blank : /\ \E i \in 1..k : raw[i] # <<>>
                              /\ \E i \in k..Len(raw) : raw[i] # <<>>}
  IN  { Cardinality({i \in 1..k : raw[i] # <<>>}) : k \in inner }

\* n is in BlockBreaks when a block ends with the n-th line and another follows
BlockBreaks(blocks) ==
  { SumOver([i \in 1..Len(blocks) |-> Len(blocks[i])], k) : k \in 1..Len(blocks) - 1 }

ScenarioText ==
  ScenarioLines[1] \o <<"\n", "\n">> \o ScenarioLines[2] \o <<"\n">> \o ScenarioLines[3]

\* C7: the classifier's blocks are the blank-line-delimited blocks of the
\* final text or parts of them: two lines with a blank line between them are
\* never in one block, and the heading "INTRODUCTION" of the scenario, which a
\* blank line follows, is a block of its own.
C7_BlankLineSeparatesBlocks ==
  hpc # "start" =>
    /\ ParagraphBreaks(hText) \subseteq BlockBreaks(hBlocks)
    /\ hText = ScenarioText => hBlocks[1] = <<ScenarioLines[1]>>

\* a text is a numeric outline: digit groups joined by single dots
IsOutlineNumber(u) ==
  /\ Len(u) > 0 /\ IsDigit(u[1]) /\ IsDigit(u[Len(u)])
  /\ \A i \in 1..Len(u) : IsDigit(u[i]) \/ u[i] = "."
  /\ \A i \in 1..Len(u) - 1 : ~(u[i] = "." /\ u[i + 1] = ".")

\* a text is a list marker: a bullet, <digits>. or <digits>), or [<digits>]
IsListMarker(u) ==
  \/ u \in {<<"-">>, <<"*">>, <<"u2022">>}
  \/ /\ Len(u) >= 2 /\ u[Len(u)] \in {".", ")"}
     /\ \A i \in 1..Len(u) - 1 : IsDigit(u[i])
  \/ /\ Len(u) >= 3 /\ u[1] = "[" /\ u[Len(u)] = "]"
     /\ \A i \in 2..Len(u) - 1 : IsDigit(u[i])

\* the lengths n for which t starts with an outline number of n characters
\* that whitespace follows
OutlinePrefixes(t) ==
  {n \in 1..Len(t) - 1 : IsOutlineNumber(SubSeq(t, 1, n)) /\ IsSpace(t[n + 1])}

\* the lengths n for which t starts with a list marker of n characters that
\* whitespace follows
MarkerPrefixes(t) ==
  {n \in 1..Len(t) - 1 : IsListMarker(SubSeq(t, 1, n)) /\ IsSpace(t[n + 1])}

\* t behind its first n characters and the whitespace that follows them
RestAfter(t, n) ==
  LET rest == {j \in n + 1..Len(t) + 1 : j > Len(t) \/ ~IsSpace(t[j])}
  IN  SubSeq(t, CHOOSE j \in rest : \A k \in rest : j <= k, Len(t))

\* the kind and the rendered text the claim gives a block's text
ExpectedBlock(t) ==
  IF OutlinePrefixes(t) # {} \/ (Len(t) < 90 /\ t = ToUpperCase(t))
    THEN [kind |-> "heading", text |-> EscapeMarkup(t)]
  ELSE IF MarkerPrefixes(t) # {}
    THEN [kind |-> "list",
          text |-> EscapeMarkup(RestAfter(t, CHOOSE n \in MarkerPrefixes(t) : TRUE))]
  ELSE [kind |-> "paragraph", text |-> EscapeMarkup(t)]

\* C8: every block gets one kind: heading when its whitespace-collapsed text
\* starts with a numeric outline followed by whitespace or is shorter than 90
\* characters and its own upper-casing; else list item when it starts with a
\* bullet, a numbered or a bracketed marker followed by whitespace, rendered
\* without the marker; else paragraph.  "1.2 OVERVIEW" is a heading, "This is
\* a normal sentence." a paragraph, "- first item" a list item "first item".
C8_ClassificationPriority ==
  hpc = "done" =>
    /\ Len(hOut) = Len(hBlocks)
    /\ \A k \in 1..Len(hOut) : hOut[k] = ExpectedBlock(BlockText(hBlocks[k]))
    /\ hText = <<"1", ".", "2", " ", "O", "V", "E", "R", "V", "I", "E", "W">> =>
         hOut = <<[kind |-> "heading", text |-> <<"1", ".", "2", " ", "O", "V", "E", "R", "V", "I", "E", "W">>]>>
    /\ hText = <<"T", "h", "i", "s", " ", "i", "s", " ", "a", " ", "n", "o", "r", "m", "a", "l", " ", "s", "e", "n", "t", "e", "n", "c", "e", ".">> =>
         hOut = <<[kind |-> "paragraph", text |-> <<"T", "h", "i", "s", " ", "i", "s", " ", "a", " ", "n", "o", "r", "m", "a", "l", " ", "s", "e", "n", "t", "e", "n", "c", "e", ".">>]>>
    /\ hText = <<"-", " ", "f", "i", "r", "s", "t", " ", "i", "t", "e", "m">> =>
         hOut = <<[kind |-> "list", text |-> <<"f", "i", "r", "s", "t", " ", "i", "t", "e", "m">>]>>

\* a text with a block of each kind: one whose marker would make it a list
\* item but whose upper case makes it a heading, a list item, a paragraph
C8_Witness ==
  /\ hpc = "done"
  /\ \E k \in 1..Len(hOut) :
       /\ hOut[k].kind = "heading"
       /\ MarkerPrefixes(BlockText(hBlocks[k])) # {}
  /\ \E k \in 1..Len(hOut) :
       hOut[k].kind = "list" /\ Len(hOut[k].text) < Len(BlockText(hBlocks[k]))
  /\ hHtml # <<>>

----------------------------------------------------------------------------
(* The main script: validation, extraction, output                         *)

\* const args = rawArgs[0] === "--" ? rawArgs.slice(1) : rawArgs
ArgsOf(rawArgs) ==
  IF Len(rawArgs) > 0 /\ rawArgs[1] = <<"-", "-">>
    THEN SubSeq(rawArgs, 2, Len(rawArgs))
    ELSE rawArgs

\* args[0] ?? "./index.pdf"
InputPdf(rawArgs) ==
  IF Len(ArgsOf(rawArgs)) >= 1 THEN ArgsOf(rawArgs)[1] ELSE <<".", "/", "i", "n", "d", "e", "x", ".", "p", "d", "f">>

\* args[1] ?? "./index.html"
OutputPath(rawArgs) ==
  IF Len(ArgsOf(rawArgs)) >= 2 THEN ArgsOf(rawArgs)[2] ELSE <<".", "/", "i", "n", "d", "e", "x", ".", "h", "t", "m", "l">>

\* path.toLowerCase().endsWith(".pdf")
IsPdfPath(path) == EndsWith(ToLowerCase(path), <<".", "p", "d", "f">>)

\* the output check without toLowerCase()
RefusesOutputExact(path) == EndsWith(path, <<".", "p", "d", "f">>)

\* outputPath.toLowerCase().endsWith(".pdf")
RefusesOutput(path) == IsPdfPath(path)

\* what printUsage writes with console.log
UsageText ==
  << "Usage: bun run extract [input.pdf] [output.html]",
     "Defaults: input=./index.pdf output=./index.html" >>

\* what the runtime writes for an exception nothing catches
Uncaught == "error: uncaught exception"

\* the versions array: ids in the order of the loop
Versions == <<"default", "layout", "raw">>

\* the steps of a complete run, in the order of the script
AllSteps == <<"input", "output", "which">> \o Versions \o <<"semantic", "write">>

\* process.exit(1) after the lines err on stderr and the lines outp on stdout
ExitWith(step, err, outp) ==
  /\ steps' = Append(steps, step)
  /\ stderr' = stderr \o err
  /\ stdout' = stdout \o outp
  /\ exitCode' = 1
  /\ cpc' = "exited"

\* the step succeeded and the script goes on at next
GoOn(step, next) ==
  /\ steps' = Append(steps, step)
  /\ cpc' = next
  /\ UNCHANGED <<stderr, stdout, exitCode>>

\* a call of the function in the log of extractSemanticStructured
Call(op, outcome) == [op |-> op, outcome |-> outcome]

\* the body of the try: pdftohtml, then readFileSync and buildSemanticFromXml;
\* a non-zero exit code is thrown as an error, and nothing runs after a throw
TryBody(run, read) ==
  IF run # "ok" THEN <<Call("pdftohtml", run)>>
  ELSE IF read # "ok" THEN <<Call("pdftohtml", "ok"), Call("readFileSync", "throw")>>
  ELSE <<Call("pdftohtml", "ok"), Call("readFileSync", "ok"),
         Call("buildSemanticFromXml", "ok")>>

\* what a call does to the temporary directory: mkdtempSync creates it,
\* rmSync removes it, a call that throws and every other call leave it as it is
DirEffect(dir, call) ==
  IF call = Call("mkdtempSync", "ok") THEN "created"
  ELSE IF call = Call("rmSync", "ok") THEN "removed"
  ELSE dir

RECURSIVE DirAfter(_, _)
\* the directory after the first n calls of a log
DirAfter(log, n) ==
  IF n = 0 THEN "none" ELSE DirEffect(DirAfter(log, n - 1), log[n])

\* the function returns when no call has failed, and throws otherwise
ResultOf(log) ==
  IF \A i \in 1..Len(log) : log[i].outcome = "ok" THEN "ok" ELSE "error"

\* the calls of the function with the removal behind the try instead of in a
\* finally: it is reached only when the body has not thrown
CallsWithoutFinally(mk, run, read, rm) ==
  IF mk = "throw" THEN <<Call("mkdtempSync", "throw")>>
  ELSE IF run = "ok" /\ read = "ok"
    THEN <<Call("mkdtempSync", "ok")>> \o TryBody(run, read) \o <<Call("rmSync", rm)>>
  ELSE <<Call("mkdtempSync", "ok")>> \o TryBody(run, read)

\* the calls of the function against an environment in which mkdtempSync,
\* pdftohtml, readFileSync and rmSync end as mk, run, read and rm say.
\* mkdtempSync is outside the try; rmSync is in the finally, so it follows
\* the body however the body ends.
SemanticCalls(mk, run, read, rm) ==
  IF mk = "throw" THEN <<Call("mkdtempSync", "throw")>>
  ELSE <<Call("mkdtempSync", "ok")>> \o TryBody(run, read) \o <<Call("rmSync", rm)>>

\* extractSemanticStructured: the calls made, what they made of the
\* directory, and whether the function returned or threw
extractSemanticStructured(mk, run, read, rm) ==
  LET log == SemanticCalls(mk, run, read, rm)
  IN  [log |-> log, tmpDir |-> DirAfter(log, Len(log)), result |-> ResultOf(log)]

----------------------------------------------------------------------------
(* SpecCli: a run of the script against an environment                     *)

\* bound of the model: the number of command-line arguments
MaxArgs == 3

\* command-line arguments
ArgPool ==
  { <<>>, <<"-", "-">>, <<"a", ".", "p", "d", "f">>, <<"A", ".", "P", "D", "F">>, <<"a", ".", "t", "x", "t">>, <<"o", ".", "h", "t", "m", "l">>, <<"o", ".", "P", "d", "f">> }

InitCli ==
  /\ argv \in SeqsUpTo(ArgPool, MaxArgs)
  /\ cpc = "input"
  /\ steps = <<>> /\ exitCode = -1 /\ stderr = <<>> /\ stdout = <<>>
  /\ written = FALSE /\ tmpDir = "none" /\ payloads = <<>> /\ semantic = "none"
  /\ semLog = <<>>
  /\ IdlePage /\ IdleDoc /\ IdleHtml

\* lines 248-266: the input path is not empty, names a PDF, and exists
ValidateInput ==
  /\ cpc = "input"
  /\ \E exists \in BOOLEAN :
       IF InputPdf(argv) = <<>>
         THEN ExitWith("input", <<>>, UsageText)
       ELSE IF ~IsPdfPath(InputPdf(argv))
         THEN ExitWith("input", <<"Input must be a PDF file. Received:">>, <<>>)
       ELSE IF ~exists
         THEN ExitWith("input", <<"PDF not found:">>, <<>>)
       ELSE GoOn("input", "output")
  /\ UNCHANGED <<argv, written, tmpDir, payloads, semantic, semLog,
                 pageVars, docVars, htmlVars>>

\* lines 268-273: the output path does not name a PDF
ValidateOutput ==
  /\ cpc = "output"
  /\ IF RefusesOutput(OutputPath(argv))
       THEN ExitWith("output", <<"Refusing to write HTML output to PDF path:">>, <<>>)
       ELSE GoOn("output", "which")
  /\ UNCHANGED <<argv, written, tmpDir, payloads, semantic, semLog,
                 pageVars, docVars, htmlVars>>

\* lines 275-285: which pdftotext; spawnSync throws when it cannot run which
CheckDependency ==
  /\ cpc = "which"
  /\ \E outcome \in {"found", "missing", "throw"} :
       CASE outcome = "found"   -> GoOn("which", "extract")
         [] outcome = "missing" ->
              ExitWith("which", <<"Missing dependency: pdftotext",
                                  "Install poppler and retry.">>, <<>>)
         [] OTHER               -> ExitWith("which", <<Uncaught>>, <<>>)
  /\ UNCHANGED <<argv, written, tmpDir, payloads, semantic, semLog,
                 pageVars, docVars, htmlVars>>

\* lines 295-305: one round of the loop over versions; extractText throws
\* when pdftotext exits non-zero or cannot be spawned
ExtractVersion ==
  /\ cpc = "extract"
  /\ Len(payloads) < Len(Versions)
  /\ LET version == Versions[Len(payloads) + 1]
     IN  \E outcome \in {"ok", "nonzero", "throw"} :
           IF outcome = "ok"
             THEN /\ payloads' = Append(payloads, version)
                  /\ GoOn(version, IF Len(payloads) + 1 = Len(Versions)
                                     THEN "semantic" ELSE "extract")
             ELSE /\ ExitWith(version, <<"Failed to extract version">>, <<>>)
                  /\ UNCHANGED payloads
  /\ UNCHANGED <<argv, written, tmpDir, semantic, semLog,
                 pageVars, docVars, htmlVars>>

\* lines 227-246 and 309: extractSemanticStructured, from mkdtempSync to the
\* return or the error that leaves it; rmSync runs in the finally
RunSemantic ==
  /\ cpc = "semantic"
  /\ \E mk \in {"ok", "throw"}, run \in {"ok", "nonzero", "throw"},
        read \in {"ok", "throw"}, rm \in {"ok", "throw"} :
       LET r == extractSemanticStructured(mk, run, read, rm)
       IN  /\ tmpDir' = r.tmpDir
           /\ semantic' = r.result
           /\ semLog' = r.log
  /\ steps' = Append(steps, "semantic")
  /\ cpc' = "semanticDone"
  /\ UNCHANGED <<argv, exitCode, stderr, stdout, written, payloads,
                 pageVars, docVars, htmlVars>>

\* lines 308-315: the try / catch around the call
HandleSemantic ==
  /\ cpc = "semanticDone"
  /\ IF semantic = "ok"
       THEN /\ cpc' = "write"
            /\ UNCHANGED <<exitCode, stderr>>
       ELSE /\ stderr' = Append(stderr, "Failed to extract structured semantic content:")
            /\ exitCode' = 1
            /\ cpc' = "exited"
  /\ UNCHANGED <<argv, steps, stdout, written, tmpDir, payloads, semantic, semLog,
                 pageVars, docVars, htmlVars>>

\* lines 317-650, up to the await: the page is built and Bun.write is called;
\* the script then waits for the promise
BeginWrite ==
  /\ cpc = "write"
  /\ steps' = Append(steps, "write")
  /\ cpc' = "awaiting"
  /\ UNCHANGED <<argv, exitCode, stderr, stdout, written, tmpDir, payloads,
                 semantic, semLog, pageVars, docVars, htmlVars>>

\* the runtime's write while the script waits at line 650: the file is on
\* disk and the promise resolves, or the write fails, with or without a file
\* left, and the promise rejects
FileWritten ==
  /\ cpc = "awaiting"
  /\ \E ok \in BOOLEAN, partial \in BOOLEAN :
       IF ok
         THEN written' = TRUE /\ cpc' = "resolved"
         ELSE written' = partial /\ cpc' = "rejected"
  /\ UNCHANGED <<argv, steps, exitCode, stderr, stdout, tmpDir, payloads,
                 semantic, semLog, pageVars, docVars, htmlVars>>

\* the script resumes behind the await: line 651 and the end of the script
\* with code 0, or the rejection, which nothing catches
ResumeAfterWrite ==
  /\ cpc \in {"resolved", "rejected"}
  /\ IF cpc = "resolved"
       THEN /\ stdout' = Append(stdout, "Extracted all text to HTML:")
            /\ exitCode' = 0
            /\ UNCHANGED stderr
       ELSE /\ stderr' = Append(stderr, Uncaught)
            /\ exitCode' = 1
            /\ UNCHANGED stdout
  /\ cpc' = "exited"
  /\ UNCHANGED <<argv, steps, written, tmpDir, payloads, semantic, semLog,
                 pageVars, docVars, htmlVars>>

NextCli ==
  \/ ValidateInput
  \/ ValidateOutput
  \/ CheckDependency
  \/ ExtractVersion
  \/ RunSemantic
  \/ HandleSemantic
  \/ BeginWrite
  \/ FileWritten
  \/ ResumeAfterWrite

SpecCli == InitCli /\ [][NextCli]_vars

----------------------------------------------------------------------------
(* Properties of the main script (SpecCli)                                 *)

\* s is the start of t
IsPrefix(s, t) == Len(s) <= Len(t) /\ SubSeq(t, 1, Len(s)) = s

\* the run has ended in one of the steps before the write
FailedBeforeWrite ==
  cpc = "exited" /\ exitCode = 1 /\ steps # <<>> /\ steps[Len(steps)] # "write"

\* the order of the steps, and what a run that ended before the write left
StepsInOrder ==
  /\ IsPrefix(steps, AllSteps)
  /\ payloads = SubSeq(Versions, 1, Len(payloads))
  /\ written => steps = AllSteps /\ payloads = Versions /\ semantic = "ok"
  /\ exitCode = 0 => written /\ cpc = "exited"
  /\ exitCode # -1 => cpc = "exited"
  /\ cpc = "exited" => exitCode \in {0, 1} /\ ~ENABLED NextCli
  /\ FailedBeforeWrite => ~written
  /\ Len(steps) >= 2 /\ IsPdfPath(OutputPath(argv)) =>
       /\ FailedBeforeWrite
       /\ steps = <<"input", "output">>
       /\ stderr = <<"Refusing to write HTML output to PDF path:">>

\* C10 as stated: the output file is written, and the exit code is 0, only
\* after the validation of the paths, the dependency check, the three
\* extractions and the structured extraction have succeeded in that order;
\* a run in which one of them fails exits with 1, has an error on stderr, has
\* written nothing and has run no later step.
C10_FailureAlwaysOnStderr ==
  /\ StepsInOrder
  /\ FailedBeforeWrite => stderr # <<>>

\* C10, amended: as above, but a run whose input argument is the empty string
\* ends with the usage text on stdout and nothing on stderr.
C10_OutputOnlyOnFullSuccess ==
  /\ StepsInOrder
  /\ FailedBeforeWrite =>
       IF InputPdf(argv) = <<>>
         THEN stderr = <<>> /\ stdout = UsageText /\ steps = <<"input">>
         ELSE stderr # <<>> /\ stdout = <<>>

\* a run refused for an output path that ends in .pdf in another case
C10_Witness ==
  /\ FailedBeforeWrite
  /\ steps = <<"input", "output">>
  /\ IsPdfPath(OutputPath(argv)) /\ OutputPath(argv) # ToLowerCase(OutputPath(argv))
  /\ stderr # <<>> /\ ~written

----------------------------------------------------------------------------
(* Separators between the lines of a page (SpecPage)                       *)

\* the places of the entries of a split text that are not empty
PlacesIn(entries) ==
  SelectSeq([i \in 1..Len(entries) |-> i], LAMBDA i : entries[i] # <<>>)

\* line k starts a block: its column differs from that of line k - 1, or it
\* lies more than max(14, 1.45 * fontSize) below it
StartsBlock(k) ==
  \/ lines[k].col # lines[k - 1].col
  \/ 100 * (lines[k].top - lines[k - 1].top) > Max(1400, 145 * lines[k].fontSize)

TopsNotNegative == \A k \in 1..Len(lines) : lines[k].top >= 0

\* C11: on a page whose lines all have top >= 0, the final text holds the
\* lines in order; between two consecutive lines there is exactly one blank
\* line when the second differs in column or lies more than
\* max(14, 1.45 * its merged font size) below the first, and a single newline
\* otherwise; nothing precedes the first line.
C11_BlockSeparatorRule ==
  ppc = "done" /\ TopsNotNegative =>
    IF Len(lines) = 0 THEN pageText = <<>>
    ELSE LET entries == Split(pageText, "\n")
             places  == PlacesIn(entries)
         IN  /\ Len(places) = Len(lines)
             /\ places[1] = 1
             /\ places[Len(places)] = Len(entries)
             /\ \A k \in 1..Len(lines) : entries[places[k]] = lines[k].text
             /\ \A k \in 2..Len(lines) :
                  places[k] - places[k - 1] - 1 = IF StartsBlock(k) THEN 1 ELSE 0

\* a finished page with a line a gap below its predecessor in the same
\* column, a line that changes column and lies a gap below, and a line that
\* starts no block
C11_Witness ==
  /\ ppc = "done" /\ TopsNotNegative /\ Len(lines) >= 4
  /\ \E k \in 2..Len(lines) :
       /\ lines[k].col = lines[k - 1].col
       /\ 100 * (lines[k].top - lines[k - 1].top) > Max(1400, 145 * lines[k].fontSize)
  /\ \E k \in 2..Len(lines) :
       /\ lines[k].col # lines[k - 1].col
       /\ 100 * (lines[k].top - lines[k - 1].top) > Max(1400, 145 * lines[k].fontSize)
  /\ \E k \in 2..Len(lines) : ~StartsBlock(k)

----------------------------------------------------------------------------
(* The words of a page, from the collector to the final text (SpecPage)    *)

\* the whitespace-separated words of a text
Words(t) ==
  SelectSeq(Split([i \in 1..Len(t) |-> IF IsSpace(t[i]) THEN " " ELSE t[i]], " "),
            LAMBDA w : w # <<>>)

\* the page has two columns: more than 25 surviving runs on each side of the
\* guard bands around the centre line
HasTwoColumns ==
  /\ page.width > 0
  /\ Cardinality(LeftOfBand) > 25
  /\ Cardinality(RightOfBand) > 25

\* the surviving runs by (col, top, left) ascending, runs with equal keys in
\* the order of the document: the index into items of the k-th run.  A run
\* is in column 1 on a two-column page when it starts right of the centre.
ReadingOrder ==
  LET n     == Len(items)
      two   == HasTwoColumns
      key   == SubSeq([i \in 1..n |->
                         << IF two /\ 2 * items[i].left > page.width THEN 1 ELSE 0,
                            items[i].top, items[i].left >>], 1, n)
      ahead == SubSeq([i \in 1..n |-> Cardinality({j \in 1..n :
                  \/ key[j][1] < key[i][1]
                  \/ key[j][1] = key[i][1] /\ key[j][2] < key[i][2]
                  \/ key[j][1] = key[i][1] /\ key[j][2] = key[i][2] /\ key[j][3] < key[i][3]
                  \/ key[j] = key[i] /\ j < i})], 1, n)
  IN  [k \in 1..n |-> CHOOSE i \in 1..n : ahead[i] = k - 1]

\* C12: the words of a page's final text are the words of the normalized
\* texts of the runs that survive the collector, taken by (col, top, left)
\* ascending: none lost, none twice, none out of order; and the whitespace of
\* the final text is spaces and newlines only.
C12_NoContentLost ==
  ppc = "done" =>
    LET order == ReadingOrder
    IN  /\ Words(pageText) =
             Join([k \in 1..Len(items) |-> Words(items[order[k]].text)], <<>>)
        /\ \A i \in 1..Len(pageText) : IsSpace(pageText[i]) => pageText[i] \in {" ", "\n"}

\* a finished page whose runs are not in reading order in the document, with
\* two runs merged into a line and a blank line in the text
C12_Witness ==
  /\ ppc = "done"
  /\ Len(items) >= 3
  /\ \E k \in 1..Len(items) : ReadingOrder[k] # k
  /\ Len(lines) < Len(items)
  /\ Contains(pageText, <<"\n", "\n">>)
  /\ \E i \in 1..Len(items) : Len(Words(items[i].text)) > 1

----------------------------------------------------------------------------
(* The temporary directory of extractSemanticStructured (SpecCli)          *)

\* extractSemanticStructured has been called, and has returned or thrown
SemanticEnded == \E i \in 1..Len(steps) : steps[i] = "semantic"

\* mkdtempSync has created the directory
DirCreated == semLog # <<>> /\ semLog[1] = Call("mkdtempSync", "ok")

\* the paths of the claim through the body of the function: the outcomes of
\* pdftohtml, readFileSync and the parse
ClaimedPaths ==
  { <<Call("pdftohtml", "ok"), Call("readFileSync", "ok"), Call("buildSemanticFromXml", "ok")>>,
    <<Call("pdftohtml", "nonzero")>>,
    <<Call("pdftohtml", "throw")>>,
    <<Call("pdftohtml", "ok"), Call("readFileSync", "throw")>> }

\* the calls of the log that are calls of rmSync
RemovalCalls == {i \in 1..Len(semLog) : semLog[i].op = "rmSync"}

\* no call of rmSync has itself failed
RemovalNotFailed == \A i \in RemovalCalls : semLog[i].outcome = "ok"

\* C13: on each of the four paths through extractSemanticStructured
\* (pdftohtml exits 0 and the XML is parsed, pdftohtml exits non-zero,
\* pdftohtml cannot be spawned, the XML file cannot be read) the directory
\* made at the start is removed when the function has returned or thrown,
\* before the caller handles the result and so before an exit with code 1:
\* the function's last call, and its only call of rmSync, is the removal,
\* behind every call of the body.  The four paths are those of the body; a
\* removal that itself fails is not among them, and the directory is stated
\* to be removed for the runs in which rmSync has not failed.
C13_CleanupOnAllPaths ==
  /\ ~SemanticEnded => tmpDir = "none" /\ semLog = <<>>
  /\ SemanticEnded /\ ~DirCreated =>
       tmpDir = "none" /\ semantic = "error" /\ semLog = <<Call("mkdtempSync", "throw")>>
  /\ SemanticEnded /\ DirCreated =>
       /\ Len(semLog) >= 3
       /\ SubSeq(semLog, 2, Len(semLog) - 1) \in ClaimedPaths
       /\ RemovalCalls = {Len(semLog)}
       /\ RemovalNotFailed => tmpDir = "removed"
       /\ tmpDir # "none"
  /\ semantic = "error" /\ cpc \notin {"semantic", "semanticDone"} =>
       cpc = "exited" /\ exitCode = 1

\* a run in which pdftohtml has ended with a non-zero exit code and the
\* function has thrown, the directory removed, the caller's catch not yet run
C13_Witness ==
  /\ cpc = "semanticDone" /\ semantic = "error" /\ exitCode = -1
  /\ semLog = <<Call("mkdtempSync", "ok"), Call("pdftohtml", "nonzero"), Call("rmSync", "ok")>>
  /\ tmpDir = "removed"
  /\ ~written

----------------------------------------------------------------------------
(* Pages of a document do not influence each other (Spec)                  *)

\* the text buildSemanticFromXml gives a page that is a document's only page
TextAlone(p) == BuildPageText(p)

\* the text of BarePage when its font 0, which it does not declare, has the
\* default size 12: a blank line after the first line, whose successor is 20
\* below it
BarePageText == <<"A", "\n", "\n", "b", "\n", "c">>

\* C14: the text of a page depends on that page only: it is the text the
\* page has as a document's only page, so equal pages have equal texts
\* whatever is before or behind them; a font declared only on an earlier page
\* is unresolved and has size 12; across pages the loop accumulates the page
\* list and the totals of lines and characters, nothing else.
C14_NoCrossPageState ==
  /\ Len(pages) <= Len(doc)
  /\ \A i \in 1..Len(pages) : pages[i] = TextAlone(doc[i])
  /\ \A i \in 1..Len(pages) : \A j \in 1..Len(pages) :
       doc[i] = doc[j] => pages[i] = pages[j]
  /\ \A i \in 1..Len(pages) : doc[i] = BarePage => pages[i] = BarePageText
  /\ totalChars = SumOver([i \in 1..Len(pages) |-> Len(pages[i])], Len(pages))
  /\ totalLines = SumOver([i \in 1..Len(pages) |-> Segments(pages[i])], Len(pages))
  /\ dpc = "loop" => stats = NoStats

\* a returned document in which the same page, one that uses a font it does
\* not declare, is the first page and also follows a page that declares
\* that font
C14_Witness ==
  /\ dpc = "returned"
  /\ Len(doc) = 3
  /\ doc[1] = BarePage /\ doc[2] = ScenarioPage /\ doc[3] = BarePage
  /\ "0" \in DOMAIN doc[2].fonts /\ "0" \notin DOMAIN doc[3].fonts
  /\ pages[1] = pages[3]

====
